---- MODULE Spec2Model ----
(***************************************************************************)
(* AernHome dashboard (src/app.py): the health-check engine.               *)
(*                                                                         *)
(*   - the probe drivers check_http_health and check_docker_health,        *)
(*   - the evaluator check_service_health,                                 *)
(*   - the services / health_checks tables, init_db's seed loop,           *)
(*     save_health_check (append + retention pruning),                     *)
(*   - the /api/health handler api_health,                                 *)
(*   - the micro-season table and its lookup behind /api/season.           *)
(*                                                                         *)
(* Python's None is the empty tuple and a present value x is <<x>>, so an  *)
(* optional latency (an integer) and an optional error (a string) are      *)
(* never compared with each other.  An exception is a record carrying the  *)
(* set of classes it is an instance of; an except clause matches when its  *)
(* class is in that set, and the clauses are tried in source order.        *)
(***************************************************************************)
EXTENDS Integers, Sequences, FiniteSets, TLC

VARIABLES
    DOCKER_AVAILABLE,   \* module global set by the guarded import (17-22)
    services,           \* rows of table services, in rowid order
    next_service_id,    \* AUTOINCREMENT counter of services.id
    health_checks,      \* rows of table health_checks, in rowid order
    next_check_id,      \* AUTOINCREMENT counter of health_checks.id
    now,                \* the wall clock, in days
    initialized,        \* init_db has run: the tables exist and are seeded
    events,             \* inputs so far: clock jumps, manual edits, requests
    pc,                 \* position of the request in flight
    req_services,       \* api_health: the local list `services`
    sparklines,         \* api_health: the local dict `sparklines`
    results,            \* api_health: the local list `results` / the response
    probe_log,          \* api_health: per loop iteration, what the probes met
    read_at,            \* the time of the request's history read
    read_checks,        \* health_checks as the request's history read saw it
    ev_service,         \* evaluator harness: the service dict under test
    ev_http,            \* evaluator harness: what requests.get will do
    ev_docker,          \* evaluator harness: what the docker client will do
    ev_out,             \* evaluator harness: outcome of check_service_health
    ev_http_out,        \* evaluator harness: outcome of check_http_health
    ev_docker_out,      \* evaluator harness: outcome of check_docker_health
    today,              \* api_season: (month, day) of datetime.now()
    season_out          \* api_season: the dict it returned

db_vars   == <<services, next_service_id, health_checks, next_check_id>>
req_vars  == <<pc, req_services, sparklines, results, probe_log, read_at, read_checks>>
ev_vars   == <<ev_service, ev_http, ev_docker, ev_out, ev_http_out, ev_docker_out>>
season_vars == <<today, season_out>>
vars      == <<DOCKER_AVAILABLE, db_vars, now, initialized, events, req_vars, ev_vars,
               season_vars>>

(***************************************************************************)
(* Values                                                                  *)
(***************************************************************************)
None        == <<>>
Some(x)     == <<x>>
\* Python truthiness of an optional string: None and "" are false.
Truthy(v)   == v /= None /\ v[1] /= ""
Range(f)    == {f[i] : i \in DOMAIN f}

HTTP_TIMEOUT == 5

Statuses    == {"up", "down", "degraded", "unknown"}

\* A call that returned `v`, and a call that let exception `e` escape.
Returned(v) == [raised |-> FALSE, value |-> v]
Raised(e)   == [raised |-> TRUE, value |-> e]

(***************************************************************************)
(* What the outside world can do to a probe.                               *)
(*   requests.get: a response with a status code after some elapsed time   *)
(*   (microseconds), or an exception.  ConnectTimeout is both a            *)
(*   ConnectionError and a Timeout; ReadTimeout is a Timeout only.         *)
(*   docker: a container with a status, or an exception; NotFound is an    *)
(*   APIError.                                                             *)
(***************************************************************************)
Response(code, us) == [kind |-> "response", code |-> code, elapsed_us |-> us]
Exc(classes, msg)  == [kind |-> "exception", classes |-> classes, msg |-> msg]
Container(status)  == [kind |-> "container", status |-> status]

ReadTimeout     == Exc({"ReadTimeout", "Timeout", "RequestException", "Exception"}, "Read timed out.")
ConnectTimeout  == Exc({"ConnectTimeout", "ConnectionError", "Timeout", "RequestException", "Exception"}, "Connect timed out.")
ConnRefused     == Exc({"ConnectionError", "RequestException", "Exception"}, "Connection refused by peer")
MissingSchema   == Exc({"MissingSchema", "RequestException", "ValueError", "Exception"}, "Invalid URL: No scheme supplied")
TooManyRedirects == Exc({"TooManyRedirects", "RequestException", "Exception"}, "Exceeded 30 redirects.")

ResponseCodes   == {200, 204, 301, 302, 404, 500}
ElapsedUs       == {900, 42000, 5200000}
HttpOutcomes    ==
    {Response(c, us) : c \in ResponseCodes, us \in ElapsedUs}
    \cup {ReadTimeout, ConnectTimeout, ConnRefused, MissingSchema, TooManyRedirects}

DockerNotFound  == Exc({"NotFound", "APIError", "DockerException", "Exception"}, "404 Client Error: No such container")
DockerDown      == Exc({"DockerException", "Exception"}, "Error while fetching server API version")
ContainerStates == {"running", "exited", "paused", "restarting"}
DockerOutcomes  ==
    {Container(s) : s \in ContainerStates} \cup {DockerNotFound, DockerDown}

(***************************************************************************)
(* check_http_health (194-214)                                             *)
(***************************************************************************)
\* int((time.time() - start) * 1000)
ResponseTimeMs(us) == us \div 1000

check_http_health_swapped_excepts(url, outcome) ==
    IF outcome.kind = "response"
    THEN LET response_time == ResponseTimeMs(outcome.elapsed_us) IN
         IF outcome.code \in {200, 302}
         THEN Returned(<<"up", Some(response_time), None>>)
         ELSE Returned(<<"down", Some(response_time), Some("HTTP " \o ToString(outcome.code))>>)
    ELSE IF "ConnectionError" \in outcome.classes
         THEN Returned(<<"down", None, Some("Connection refused")>>)
    ELSE IF "Timeout" \in outcome.classes
         THEN Returned(<<"down", Some(HTTP_TIMEOUT * 1000), Some("Timeout")>>)
    ELSE IF "Exception" \in outcome.classes
         THEN Returned(<<"down", None, Some(outcome.msg)>>)
    ELSE Raised(outcome)

check_http_health_no_catch_all(url, outcome) ==
    IF outcome.kind = "response"
    THEN LET response_time == ResponseTimeMs(outcome.elapsed_us) IN
         IF outcome.code \in {200, 302}
         THEN Returned(<<"up", Some(response_time), None>>)
         ELSE Returned(<<"down", Some(response_time), Some("HTTP " \o ToString(outcome.code))>>)
    ELSE IF "Timeout" \in outcome.classes
         THEN Returned(<<"down", Some(HTTP_TIMEOUT * 1000), Some("Timeout")>>)
    ELSE IF "ConnectionError" \in outcome.classes
         THEN Returned(<<"down", None, Some("Connection refused")>>)
    ELSE Raised(outcome)

check_http_health(url, outcome) ==
    IF outcome.kind = "response"
    THEN LET response_time == ResponseTimeMs(outcome.elapsed_us) IN
         IF outcome.code \in {200, 302}
         THEN Returned(<<"up", Some(response_time), None>>)
         ELSE Returned(<<"down", Some(response_time), Some("HTTP " \o ToString(outcome.code))>>)
    ELSE IF "Timeout" \in outcome.classes
         THEN Returned(<<"down", Some(HTTP_TIMEOUT * 1000), Some("Timeout")>>)
    ELSE IF "ConnectionError" \in outcome.classes
         THEN Returned(<<"down", None, Some("Connection refused")>>)
    ELSE IF "Exception" \in outcome.classes
         THEN Returned(<<"down", None, Some(outcome.msg)>>)
    ELSE Raised(outcome)

(***************************************************************************)
(* check_docker_health (217-236)                                           *)
(***************************************************************************)
\* check_docker_health without the DOCKER_AVAILABLE guard: with no docker
\* module, naming docker.errors.NotFound in the except clause raises NameError
check_docker_health_no_guard(container_name, available, outcome) ==
    IF ~available
    THEN Raised(Exc({"NameError", "Exception"}, "name 'docker' is not defined"))
    ELSE IF outcome.kind = "container"
         THEN IF outcome.status = "running"
              THEN Returned(<<"up", None>>)
              ELSE Returned(<<"down", Some("Container status: " \o outcome.status)>>)
    ELSE IF "NotFound" \in outcome.classes
         THEN Returned(<<"down", Some("Container not found")>>)
    ELSE IF "Exception" \in outcome.classes
         THEN Returned(<<"down", Some(outcome.msg)>>)
    ELSE Raised(outcome)

\* check_docker_health that asks the backend first and looks at
\* DOCKER_AVAILABLE only when a container came back
check_docker_health_guard_after_lookup(container_name, available, outcome) ==
    IF outcome.kind = "container"
    THEN IF ~available
         THEN Returned(<<"unknown", Some("Docker library not available")>>)
         ELSE IF outcome.status = "running"
              THEN Returned(<<"up", None>>)
              ELSE Returned(<<"down", Some("Container status: " \o outcome.status)>>)
    ELSE IF "NotFound" \in outcome.classes
         THEN Returned(<<"down", Some("Container not found")>>)
    ELSE IF "Exception" \in outcome.classes
         THEN Returned(<<"down", Some(outcome.msg)>>)
    ELSE Raised(outcome)

check_docker_health(container_name, available, outcome) ==
    IF ~available
    THEN Returned(<<"unknown", Some("Docker library not available")>>)
    ELSE IF outcome.kind = "container"
         THEN IF outcome.status = "running"
              THEN Returned(<<"up", None>>)
              ELSE Returned(<<"down", Some("Container status: " \o outcome.status)>>)
    ELSE IF "NotFound" \in outcome.classes
         THEN Returned(<<"down", Some("Container not found")>>)
    ELSE IF "Exception" \in outcome.classes
         THEN Returned(<<"down", Some(outcome.msg)>>)
    ELSE Raised(outcome)

(***************************************************************************)
(* check_service_health (239-269).  `calls` lists the probes invoked, in   *)
(* order; an exception escaping a probe escapes the evaluator.             *)
(***************************************************************************)
\* a result that starts as down
InitialResult_down == [status |-> "down", response_time_ms |-> None, error_message |-> None]

InitialResult == [status |-> "unknown", response_time_ms |-> None, error_message |-> None]

Evaluated(result, calls) == [raised |-> FALSE, value |-> result, calls |-> calls]
Escaped(e, calls)        == [raised |-> TRUE, value |-> e, calls |-> calls]

\* DockerStep without the `check_type == "docker" or result["status"] == "up"` guard
DockerStep_no_short_circuit(service, result, calls, available, docker_outcome) ==
    LET check_type == service.check_type IN
    IF check_type \in {"docker", "both"} /\ Truthy(service.docker_container)
    THEN LET d == check_docker_health(service.docker_container[1], available, docker_outcome)
             calls2 == Append(calls, "docker")
         IN  IF d.raised THEN Escaped(d.value, calls2)
             ELSE LET docker_status == d.value[1]
                      docker_error  == d.value[2]
                  IN  IF check_type = "docker"
                      THEN Evaluated([result EXCEPT !.status = docker_status,
                                                    !.error_message = docker_error], calls2)
                      ELSE IF docker_status /= "up"
                      THEN Evaluated([result EXCEPT !.status = "degraded",
                                                    !.error_message = docker_error], calls2)
                      ELSE Evaluated(result, calls2)
    ELSE Evaluated(result, calls)

\* DockerStep with `elif docker_status == "down"` in place of `!= "up"`
DockerStep_degrades_on_down_only(service, result, calls, available, docker_outcome) ==
    LET check_type == service.check_type IN
    IF check_type \in {"docker", "both"} /\ Truthy(service.docker_container)
    THEN IF check_type = "docker" \/ result.status = "up"
         THEN LET d == check_docker_health(service.docker_container[1], available, docker_outcome)
                  calls2 == Append(calls, "docker")
              IN  IF d.raised THEN Escaped(d.value, calls2)
                  ELSE LET docker_status == d.value[1]
                           docker_error  == d.value[2]
                       IN  IF check_type = "docker"
                           THEN Evaluated([result EXCEPT !.status = docker_status,
                                                         !.error_message = docker_error], calls2)
                           ELSE IF docker_status = "down"
                           THEN Evaluated([result EXCEPT !.status = "degraded",
                                                         !.error_message = docker_error], calls2)
                           ELSE Evaluated(result, calls2)
         ELSE Evaluated(result, calls)
    ELSE Evaluated(result, calls)

\* DockerStep that keeps the network latency but forgets the `elif`: in mode
\* both the container's state never reaches the verdict
DockerStep_ignores_container(service, result, calls, available, docker_outcome) ==
    LET check_type == service.check_type IN
    IF check_type \in {"docker", "both"} /\ Truthy(service.docker_container)
    THEN IF check_type = "docker" \/ result.status = "up"
         THEN LET d == check_docker_health(service.docker_container[1], available, docker_outcome)
                  calls2 == Append(calls, "docker")
              IN  IF d.raised THEN Escaped(d.value, calls2)
                  ELSE IF check_type = "docker"
                       THEN Evaluated([result EXCEPT !.status = d.value[1],
                                                     !.error_message = d.value[2]], calls2)
                       ELSE Evaluated(result, calls2)
         ELSE Evaluated(result, calls)
    ELSE Evaluated(result, calls)

\* lines 255-267 given the result and calls so far
DockerStep(service, result, calls, available, docker_outcome) ==
    LET check_type == service.check_type IN
    IF check_type \in {"docker", "both"} /\ Truthy(service.docker_container)
    THEN IF check_type = "docker" \/ result.status = "up"
         THEN LET d == check_docker_health(service.docker_container[1], available, docker_outcome)
                  calls2 == Append(calls, "docker")
              IN  IF d.raised THEN Escaped(d.value, calls2)
                  ELSE LET docker_status == d.value[1]
                           docker_error  == d.value[2]
                       IN  IF check_type = "docker"
                           THEN Evaluated([result EXCEPT !.status = docker_status,
                                                         !.error_message = docker_error], calls2)
                           ELSE IF docker_status /= "up"
                           THEN Evaluated([result EXCEPT !.status = "degraded",
                                                         !.error_message = docker_error], calls2)
                           ELSE Evaluated(result, calls2)
         ELSE Evaluated(result, calls)
    ELSE Evaluated(result, calls)

\* check_service_health whose first test is `if service["url"]` alone
check_service_health_probes_any_url(service, http_outcome, available, docker_outcome) ==
    IF Truthy(service.url)
    THEN LET h == check_http_health(service.url[1], http_outcome) IN
         IF h.raised THEN Escaped(h.value, <<"http">>)
         ELSE DockerStep(service,
                         [status |-> h.value[1], response_time_ms |-> h.value[2],
                          error_message |-> h.value[3]],
                         <<"http">>, available, docker_outcome)
    ELSE DockerStep(service, InitialResult, <<>>, available, docker_outcome)

check_service_health(service, http_outcome, available, docker_outcome) ==
    LET check_type == service.check_type IN
    IF check_type \in {"http", "both"} /\ Truthy(service.url)
    THEN LET h == check_http_health(service.url[1], http_outcome) IN
         IF h.raised THEN Escaped(h.value, <<"http">>)
         ELSE DockerStep(service,
                         [status |-> h.value[1], response_time_ms |-> h.value[2],
                          error_message |-> h.value[3]],
                         <<"http">>, available, docker_outcome)
    ELSE DockerStep(service, InitialResult, <<>>, available, docker_outcome)

(***************************************************************************)
(* Evaluator harness: one service dict and one behaviour of the outside    *)
(* world, against which each of the three functions is called once.        *)
(***************************************************************************)
Urls        == {None, Some(""), Some("http://svc:8096")}
Containers  == {None, Some(""), Some("svc")}
CheckTypes  == {"http", "docker", "both", "tcp"}
ServiceDicts ==
    [id : {1}, name : {"svc"}, url : Urls, check_type : CheckTypes,
     docker_container : Containers, enabled : {1}]

\* a harness slot holds None until its function has been called
NotRun == None

InitEval ==
    /\ DOCKER_AVAILABLE \in BOOLEAN
    /\ ev_service \in ServiceDicts
    /\ ev_http \in HttpOutcomes
    /\ ev_docker \in DockerOutcomes
    /\ ev_out = NotRun
    /\ ev_http_out = NotRun
    /\ ev_docker_out = NotRun
    /\ services = <<>> /\ next_service_id = 1
    /\ health_checks = <<>> /\ next_check_id = 1
    /\ now = 0 /\ initialized = FALSE /\ events = 0
    /\ pc = "idle" /\ req_services = <<>> /\ sparklines = <<>>
    /\ results = <<>> /\ probe_log = <<>> /\ read_at = 0 /\ read_checks = <<>>
    /\ today = None /\ season_out = None

EvalService ==
    /\ ev_out = NotRun
    /\ ev_out' = Some(check_service_health(ev_service, ev_http, DOCKER_AVAILABLE, ev_docker))
    /\ UNCHANGED <<DOCKER_AVAILABLE, db_vars, now, initialized, events, req_vars,
                   ev_service, ev_http, ev_docker, ev_http_out, ev_docker_out,
                   season_vars>>

EvalHttp ==
    /\ ev_http_out = NotRun
    /\ Truthy(ev_service.url)
    /\ ev_http_out' = Some(check_http_health(ev_service.url[1], ev_http))
    /\ UNCHANGED <<DOCKER_AVAILABLE, db_vars, now, initialized, events, req_vars,
                   ev_service, ev_http, ev_docker, ev_out, ev_docker_out,
                   season_vars>>

EvalDocker ==
    /\ ev_docker_out = NotRun
    /\ Truthy(ev_service.docker_container)
    /\ ev_docker_out' = Some(check_docker_health(ev_service.docker_container[1],
                                                  DOCKER_AVAILABLE, ev_docker))
    /\ UNCHANGED <<DOCKER_AVAILABLE, db_vars, now, initialized, events, req_vars,
                   ev_service, ev_http, ev_docker, ev_out, ev_http_out,
                   season_vars>>

NextEval == EvalService \/ EvalHttp \/ EvalDocker

SpecEval == InitEval /\ [][NextEval]_vars

(***************************************************************************)
(* The catalog and the two tables.                                         *)
(***************************************************************************)
DEFAULT_SERVICES == <<
    [name |-> "n8n", url |-> Some("https://ashaman-1.tail125d67.ts.net:5678"),
     check_type |-> "both", docker_container |-> Some("n8n"), enabled |-> 1],
    [name |-> "jellyfin", url |-> Some("http://ashaman-1.tail125d67.ts.net:8096"),
     check_type |-> "http", docker_container |-> Some("jellyfin"), enabled |-> 1],
    [name |-> "qbittorrent", url |-> Some("http://100.73.108.55:8080"),
     check_type |-> "http", docker_container |-> Some("qbittorrent"), enabled |-> 1],
    [name |-> "open-webui", url |-> Some("http://host.docker.internal:3000"),
     check_type |-> "http", docker_container |-> Some("open-webui"), enabled |-> 1],
    [name |-> "discord-relay", url |-> None,
     check_type |-> "docker", docker_container |-> Some("claude-relay"), enabled |-> 1],
    [name |-> "cloudflared", url |-> None,
     check_type |-> "docker", docker_container |-> Some("cloudflared-tunnel"), enabled |-> 1],
    [name |-> "scan-runner", url |-> None,
     check_type |-> "docker", docker_container |-> Some("scan-runner"), enabled |-> 1],
    [name |-> "uptime-kuma", url |-> Some("http://host.docker.internal:3001"),
     check_type |-> "http", docker_container |-> Some("uptime-kuma"), enabled |-> 1],
    [name |-> "home-assistant", url |-> Some("http://192.168.1.70:8123"),
     check_type |-> "http", docker_container |-> None, enabled |-> 1] >>

\* The model seeds the first NumCatalog entries of DEFAULT_SERVICES.
NumCatalog  == 2
\* The outside world acts at most MaxEvents times: a clock jump, a manual edit
\* of a service row, the arrival of a request and a failure of the storage
\* are one event each.
MaxEvents   == 3

Min(a, b)   == IF a < b THEN a ELSE b
Catalog     == SubSeq(DEFAULT_SERVICES, 1, Min(NumCatalog, Len(DEFAULT_SERVICES)))

\* datetime('now', '-7 days') and datetime('now', '-24 hours'), the clock in days
RETENTION_DAYS == 7
WINDOW_DAYS    == 1

(***************************************************************************)
(* init_db, the seed loop (162-182): insert every catalog entry whose name *)
(* has no row yet.  SeedFrom(k, ...) is the loop from entry k on.          *)
(***************************************************************************)
HasName(rows, name) == \E i \in DOMAIN rows : rows[i].name = name

NewRow(service, id) ==
    [id |-> id, name |-> service.name, url |-> service.url,
     check_type |-> service.check_type,
     docker_container |-> service.docker_container, enabled |-> service.enabled]

RECURSIVE SeedFrom(_, _, _)
SeedFrom(k, rows, next_id) ==
    IF k > Len(Catalog) THEN [rows |-> rows, next_id |-> next_id]
    ELSE IF HasName(rows, Catalog[k].name)
         THEN SeedFrom(k + 1, rows, next_id)
         ELSE SeedFrom(k + 1, Append(rows, NewRow(Catalog[k], next_id)), next_id + 1)

\* the seed loop written as INSERT OR REPLACE: an existing row is rewritten
\* from the catalog
RECURSIVE ReseedFrom(_, _, _)
ReseedFrom(k, rows, next_id) ==
    IF k > Len(Catalog) THEN [rows |-> rows, next_id |-> next_id]
    ELSE IF HasName(rows, Catalog[k].name)
         THEN ReseedFrom(k + 1,
                         [i \in DOMAIN rows |->
                            IF rows[i].name = Catalog[k].name
                            THEN NewRow(Catalog[k], rows[i].id) ELSE rows[i]],
                         next_id)
         ELSE ReseedFrom(k + 1, Append(rows, NewRow(Catalog[k], next_id)), next_id + 1)

seed_replacing(rows, next_id) == ReseedFrom(1, rows, next_id)

seed(rows, next_id) == SeedFrom(1, rows, next_id)

(***************************************************************************)
(* save_health_check (272-288): INSERT with checked_at = CURRENT_TIMESTAMP,*)
(* then DELETE every row, of any service, older than seven days.           *)
(***************************************************************************)
\* an INSERT that leaves response_time_ms out of its column list
CheckRow_drops_latency(id, service_id, result, at) ==
    [id |-> id, service_id |-> service_id, status |-> result.status,
     response_time_ms |-> None,
     error_message |-> result.error_message, checked_at |-> at]

CheckRow(id, service_id, result, at) ==
    [id |-> id, service_id |-> service_id, status |-> result.status,
     response_time_ms |-> result.response_time_ms,
     error_message |-> result.error_message, checked_at |-> at]

\* the DELETE restricted to the service just checked
save_health_check_prunes_own_service(rows, id, service_id, result, at) ==
    SelectSeq(Append(rows, CheckRow(id, service_id, result, at)),
              LAMBDA r : ~(r.service_id = service_id /\ r.checked_at < at - RETENTION_DAYS))

\* the DELETE with <= in place of <
save_health_check_prunes_at_horizon(rows, id, service_id, result, at) ==
    SelectSeq(Append(rows, CheckRow(id, service_id, result, at)),
              LAMBDA r : ~(r.checked_at <= at - RETENTION_DAYS))

save_health_check(rows, id, service_id, result, at) ==
    SelectSeq(Append(rows, CheckRow(id, service_id, result, at)),
              LAMBDA r : ~(r.checked_at < at - RETENTION_DAYS))

(***************************************************************************)
(* api_health (545-608)                                                    *)
(***************************************************************************)
\* SELECT * FROM services
EnabledServices_all(rows) == rows

\* SELECT * FROM services WHERE enabled = 1
EnabledServices(rows) == SelectSeq(rows, LAMBDA r : r.enabled = 1)

\* ORDER BY checked_at ASC: the orders of the rows that ascend by checked_at.
\* Rows of one service with equal checked_at come in any order; rows of
\* different services with equal checked_at are taken by service_id, as
\* their relative order never shows in a sparkline.
First(S) ==
    LET earliest == {x \in S : \A y \in S : x.checked_at <= y.checked_at}
    IN  {x \in earliest : \A y \in earliest : x.service_id <= y.service_id}

RECURSIVE Ascending(_)
Ascending(S) ==
    IF S = {} THEN {<<>>}
    ELSE UNION {{<<r>> \o rest : rest \in Ascending(S \ {r})} : r \in First(S)}

\* the SELECT without its WHERE clause
SparklineRows_unfiltered(rows, at) == Ascending(Range(rows))

\* SELECT ... WHERE checked_at >= datetime('now', '-24 hours') ORDER BY checked_at ASC
SparklineRows(rows, at) ==
    Ascending({r \in Range(rows) : r.checked_at >= at - WINDOW_DAYS})

\* the grouping loop (567-572): a dict keyed by the service ids met
GroupSparklines(sparkline_rows) ==
    [sid \in {sparkline_rows[i].service_id : i \in DOMAIN sparkline_rows} |->
        LET mine == SelectSeq(sparkline_rows, LAMBDA r : r.service_id = sid)
        IN  [i \in DOMAIN mine |-> mine[i].status = "up"]]

\* sparklines.get(service["id"], [])
SparklineOf(dict, sid) == IF sid \in DOMAIN dict THEN dict[sid] ELSE <<>>

\* a summary whose sparkline has the fresh verdict appended
Summary_with_fresh_verdict(service, result, dict) ==
    [id |-> service.id, name |-> service.name, url |-> service.url,
     status |-> result.status, response_time_ms |-> result.response_time_ms,
     error_message |-> result.error_message,
     sparkline |-> Append(SparklineOf(dict, service.id), result.status = "up")]

Summary(service, result, dict) ==
    [id |-> service.id, name |-> service.name, url |-> service.url,
     status |-> result.status, response_time_ms |-> result.response_time_ms,
     error_message |-> result.error_message,
     sparkline |-> SparklineOf(dict, service.id)]

\* the probe outcomes a request's services meet
ReqHttpOutcomes   == {Response(200, 42000), ConnRefused}
ReqDockerOutcomes == {Container("running")}

Init ==
    /\ DOCKER_AVAILABLE \in BOOLEAN
    /\ services = <<>> /\ next_service_id = 1
    /\ health_checks = <<>> /\ next_check_id = 1
    /\ now = 0 /\ initialized = FALSE /\ events = 0
    /\ pc = "idle" /\ req_services = <<>> /\ sparklines = <<>>
    /\ results = <<>> /\ probe_log = <<>> /\ read_at = 0 /\ read_checks = <<>>
    /\ today = None /\ season_out = None
    /\ ev_service = None /\ ev_http = None /\ ev_docker = None
    /\ ev_out = None /\ ev_http_out = None /\ ev_docker_out = None

\* the process starts (797-800): init_db runs before the first request is served
init_db ==
    /\ pc /= "loop"
    /\ LET seeded == seed(services, next_service_id) IN
       /\ services' = seeded.rows
       /\ next_service_id' = seeded.next_id
    /\ initialized' = TRUE
    /\ UNCHANGED <<DOCKER_AVAILABLE, health_checks, next_check_id, now, events,
                   req_vars, ev_vars, season_vars>>

\* a row of table services is edited by hand
EditService ==
    /\ initialized /\ events < MaxEvents
    /\ \E i \in DOMAIN services :
         \E row \in {[services[i] EXCEPT !.url = None],
                     [services[i] EXCEPT !.check_type = "docker"],
                     [services[i] EXCEPT !.enabled = 0]} :
            /\ row /= services[i]
            /\ services' = [services EXCEPT ![i] = row]
    /\ events' = events + 1
    /\ UNCHANGED <<DOCKER_AVAILABLE, next_service_id, health_checks, next_check_id, now,
                   initialized, req_vars, ev_vars, season_vars>>

\* the clock jumps: by a day, by a week, by a week and a day; while a request
\* is being served, by a day
ClockJumps == IF pc = "loop" THEN {WINDOW_DAYS}
              ELSE {WINDOW_DAYS, RETENTION_DAYS, RETENTION_DAYS + WINDOW_DAYS}

Tick ==
    /\ initialized /\ events < MaxEvents
    /\ \E days \in ClockJumps : now' = now + days
    /\ events' = events + 1
    /\ UNCHANGED <<DOCKER_AVAILABLE, db_vars, initialized, req_vars, ev_vars,
                   season_vars>>

\* lines 551-572: the two SELECTs and the grouping loop; a failing SELECT
\* ends the request, and so does an empty list of services (574-575, 608)
ApiHealthBegin ==
    /\ initialized /\ pc /= "loop" /\ events < MaxEvents
    /\ \E storage_ok \in BOOLEAN :
         IF storage_ok
         THEN \E dict \in {GroupSparklines(sparkline_rows) :
                              sparkline_rows \in SparklineRows(health_checks, now)} :
                /\ pc' = IF EnabledServices(services) = <<>> THEN "done" ELSE "loop"
                /\ req_services' = EnabledServices(services)
                /\ sparklines' = dict
                /\ events' = events + 1
         ELSE /\ events + 1 < MaxEvents
              /\ pc' = "storage_error"
              /\ req_services' = <<>> /\ sparklines' = <<>>
              /\ events' = events + 2
    /\ results' = <<>> /\ probe_log' = <<>>
    /\ read_at' = now /\ read_checks' = health_checks
    /\ UNCHANGED <<DOCKER_AVAILABLE, db_vars, now, initialized, ev_vars,
                   season_vars>>

\* what one loop iteration logs of the outside world: the outcome each probe
\* it invoked met
ProbeLogEntry(h, d, calls) ==
    [http   |-> IF "http" \in Range(calls) THEN Some(h) ELSE None,
     docker |-> IF "docker" \in Range(calls) THEN Some(d) ELSE None]

\* the loop iteration with save_health_check wrapped in try/except: pass
ApiHealthService_swallows_storage_failure ==
    /\ pc = "loop" /\ Len(results) < Len(req_services)
    /\ LET service == req_services[Len(results) + 1] IN
       \E h \in ReqHttpOutcomes, d \in ReqDockerOutcomes, storage_ok \in BOOLEAN :
         LET health == check_service_health(service, h, DOCKER_AVAILABLE, d) IN
         IF health.raised
         THEN /\ pc' = "probe_error"
              /\ UNCHANGED <<health_checks, next_check_id, results, probe_log, events>>
         ELSE /\ IF storage_ok
                 THEN /\ health_checks' = save_health_check(health_checks, next_check_id,
                                                            service.id, health.value, now)
                      /\ next_check_id' = next_check_id + 1
                      /\ UNCHANGED events
                 ELSE /\ events < MaxEvents
                      /\ events' = events + 1
                      /\ UNCHANGED <<health_checks, next_check_id>>
              /\ results' = Append(results, Summary(service, health.value, sparklines))
              /\ probe_log' = Append(probe_log, ProbeLogEntry(h, d, health.calls))
              /\ pc' = IF Len(results) + 1 = Len(req_services) THEN "done" ELSE "loop"
    /\ UNCHANGED <<DOCKER_AVAILABLE, services, next_service_id, now, initialized,
                   req_services, sparklines, read_at, read_checks, ev_vars, season_vars>>

\* lines 575-608: one iteration of the loop over services; the last one
\* returns the summaries
ApiHealthService ==
    /\ pc = "loop" /\ Len(results) < Len(req_services)
    /\ LET service == req_services[Len(results) + 1] IN
       \E h \in ReqHttpOutcomes, d \in ReqDockerOutcomes, storage_ok \in BOOLEAN :
         LET health == check_service_health(service, h, DOCKER_AVAILABLE, d) IN
         IF health.raised
         THEN /\ pc' = "probe_error"
              /\ UNCHANGED <<health_checks, next_check_id, results, probe_log, events>>
         ELSE IF ~storage_ok
         THEN /\ events < MaxEvents
              /\ events' = events + 1
              /\ pc' = "storage_error"
              /\ UNCHANGED <<health_checks, next_check_id, results, probe_log>>
         ELSE /\ health_checks' = save_health_check(health_checks, next_check_id,
                                                    service.id, health.value, now)
              /\ next_check_id' = next_check_id + 1
              /\ results' = Append(results, Summary(service, health.value, sparklines))
              /\ probe_log' = Append(probe_log, ProbeLogEntry(h, d, health.calls))
              /\ pc' = IF Len(results) + 1 = Len(req_services) THEN "done" ELSE "loop"
              /\ UNCHANGED events
    /\ UNCHANGED <<DOCKER_AVAILABLE, services, next_service_id, now, initialized,
                   req_services, sparklines, read_at, read_checks, ev_vars, season_vars>>

\* return jsonify(results) (608): the body of the response, None for a
\* request that is still running or ended in an exception
api_health_response == IF pc = "done" THEN Some(results) ELSE None

Next == init_db \/ EditService \/ Tick \/ ApiHealthBegin \/ ApiHealthService

Spec == Init /\ [][Next]_vars

(***************************************************************************)
(* Properties of the tables and of api_health (under Spec).                *)
(***************************************************************************)
\* the rows of service sid that the request's history read had in its window
WindowRows(sid) ==
    {r \in Range(read_checks) : r.service_id = sid /\ r.checked_at >= read_at - WINDOW_DAYS}

\* sl is [status = up] over the rows of R in some order ascending by timestamp
IsTimeline(sl, R) ==
    /\ Len(sl) = Cardinality(R)
    /\ \E f \in [DOMAIN sl -> R] :
         /\ \A i, j \in DOMAIN sl : i /= j => f[i] /= f[j]
         /\ \A i, j \in DOMAIN sl : i < j => f[i].checked_at <= f[j].checked_at
         /\ \A i \in DOMAIN sl : sl[i] = (f[i].status = "up")

C5_Retention ==
    [][next_check_id' > next_check_id
        => \A r \in Range(health_checks') : now' - r.checked_at <= 7]_vars

\* a row of a service other than the one just checked has been pruned
C5_Witness ==
    /\ pc = "loop" /\ Len(results) = 1
    /\ \E r \in Range(read_checks) :
         /\ r.service_id /= results[1].id
         /\ r \notin Range(health_checks)
         /\ now - r.checked_at > 7

\* the rows of table services whose name is `name`
RowsNamed(rows, name) == {i \in DOMAIN rows : rows[i].name = name}

\* C6: a run of the seed loop leaves exactly one row per catalog name and
\* changes no field of a row that existed before the run.
C6_SeedIdempotent ==
    [][init_db =>
        /\ \A k \in DOMAIN Catalog : Cardinality(RowsNamed(services', Catalog[k].name)) = 1
        /\ \A i \in DOMAIN services : i \in DOMAIN services' /\ services'[i] = services[i]]_vars

\* the seed loop has run on a table with a hand-edited row, which keeps its edit
C6_Witness ==
    /\ initialized /\ events = 1 /\ pc = "idle"
    /\ \E i \in DOMAIN services, k \in DOMAIN Catalog :
         /\ services[i].name = Catalog[k].name
         /\ services[i].url /= Catalog[k].url
    /\ Len(services) = Len(Catalog)

\* the verdict of one service from its own dict and the outcomes its own
\* probes met (an uninvoked probe's outcome is immaterial)
OwnVerdict(service, log) ==
    check_service_health(service,
                         IF log.http = None THEN ConnRefused ELSE log.http[1],
                         DOCKER_AVAILABLE,
                         IF log.docker = None THEN DockerDown ELSE log.docker[1]).value

\* a probe of the k-th service of the request met a failure
ProbeFailedAt(k) ==
    \/ probe_log[k].http /= None /\ probe_log[k].http[1].kind = "exception"
    \/ probe_log[k].docker /= None /\ ~DOCKER_AVAILABLE

\* C8: a probe failure never ends a request; every service evaluated so far
\* has its own summary, in order, whose status, latency and error are those
\* of its own probes, and a returned response has one summary per enabled
\* service of the request.
C8_Independent ==
    /\ pc /= "probe_error"
    /\ Len(results) <= Len(req_services) /\ Len(probe_log) = Len(results)
    /\ pc = "done" => Len(results) = Len(req_services)
    /\ \A k \in DOMAIN results :
         /\ results[k].id = req_services[k].id
         /\ LET v == OwnVerdict(req_services[k], probe_log[k]) IN
            /\ results[k].status = v.status
            /\ results[k].response_time_ms = v.response_time_ms
            /\ results[k].error_message = v.error_message

\* a returned response in which the first service's probe failed and the
\* second service is up
C8_Witness ==
    /\ pc = "done" /\ Len(results) = 2
    /\ ProbeFailedAt(1) /\ results[1].status = "down"
    /\ results[2].status = "up"

\* the rows the running or last request has appended
AppendedRows == Range(health_checks) \ Range(read_checks)

\* row r records the verdict of summary s
Records(r, s) ==
    /\ r.service_id = s.id /\ r.status = s.status
    /\ r.response_time_ms = s.response_time_ms /\ r.error_message = s.error_message

\* C12: a request takes exactly the rows of table services with enabled = 1,
\* in insertion order (ascending id); a returned response has one summary
\* per such row, in that order, one set of probes per summary, and every
\* history row the request appended belongs to one of them.
C12_EnabledOnly ==
    [][/\ (ApiHealthBegin /\ pc' /= "storage_error") =>
            /\ Range(req_services') = {r \in Range(services) : r.enabled = 1}
            /\ \A i, j \in DOMAIN req_services' :
                  i < j => req_services'[i].id < req_services'[j].id
       /\ pc' = "done" =>
            /\ Len(results') = Len(req_services') /\ Len(probe_log') = Len(results')
            /\ \A k \in DOMAIN results' : results'[k].id = req_services'[k].id
            /\ \A r \in Range(health_checks') \ Range(read_checks') :
                  \E k \in DOMAIN req_services' : r.service_id = req_services'[k].id]_vars

\* a returned response that leaves out the first registered service, which
\* is disabled and got no history row
C12_Witness ==
    /\ pc = "done" /\ Len(results) >= 1
    /\ \E s \in Range(services) :
         /\ s.enabled = 0 /\ s.id < results[1].id
         /\ \A k \in DOMAIN results : results[k].id /= s.id
         /\ \A r \in Range(health_checks) : r.service_id /= s.id

\* C13: no step changes a field of an existing history row, and a row leaves
\* the table only in a step that appends and only if its timestamp is more
\* than 7 days before that append.
C13_Immutable ==
    [][\A r \in Range(health_checks) :
          /\ \A q \in Range(health_checks') : q.id = r.id => q = r
          /\ r \notin Range(health_checks') =>
                /\ next_check_id' > next_check_id
                /\ r.checked_at < now - RETENTION_DAYS]_vars

\* an append has left in place a row that is exactly 7 days old
C13_Witness ==
    /\ pc \in {"loop", "done"} /\ Len(results) >= 1
    /\ \E r \in Range(read_checks) :
         /\ r \in Range(health_checks)
         /\ now - r.checked_at = RETENTION_DAYS

\* C14: a request that met a storage failure returns no summary; every
\* summary of a returned response has its verdict in table health_checks.
C14_StoragePropagates ==
    /\ pc = "storage_error" => api_health_response = None
    /\ api_health_response /= None =>
          \A k \in DOMAIN api_health_response[1] :
             \E r \in AppendedRows : Records(r, api_health_response[1][k])

\* the append of the second service failed after the first was recorded and
\* summarised: no response body
C14_Witness ==
    /\ pc = "storage_error" /\ Len(results) = 1 /\ Len(req_services) = 2
    /\ \E r \in AppendedRows : Records(r, results[1])
    /\ api_health_response = None

CountOf(rows, sid) == Cardinality({r \in Range(rows) : r.service_id = sid})

\* C18: a returned response has appended exactly one row per summary, whose
\* service, status, latency and error are the summary's; unless the request
\* pruned, each of its services has one row more than before it.
C18_OneRecordPerService ==
    pc = "done" =>
        /\ Cardinality(AppendedRows) = Len(results)
        /\ \A k \in DOMAIN results :
              /\ Cardinality({r \in AppendedRows : r.service_id = results[k].id}) = 1
              /\ \A r \in AppendedRows :
                    r.service_id = results[k].id => Records(r, results[k])
              /\ Range(read_checks) \subseteq Range(health_checks) =>
                    CountOf(health_checks, results[k].id)
                       = CountOf(read_checks, results[k].id) + 1

\* the second returned response: a service with a latency on record has two
\* rows
C18_Witness ==
    /\ pc = "done" /\ Len(results) >= 1
    /\ CountOf(health_checks, results[1].id) = 2
    /\ CountOf(read_checks, results[1].id) = 1
    /\ results[1].response_time_ms /= None

(***************************************************************************)
(* Properties of the evaluator and the probe drivers (under SpecEval).     *)
(***************************************************************************)
\* every harness slot the formula reads has been filled
EvalRan     == ev_out /= None
HttpRan     == ev_http_out /= None
DockerRan   == ev_docker_out /= None
HasBoth     == Truthy(ev_service.url) /\ Truthy(ev_service.docker_container)
EvResult    == ev_out[1].value
EvCalls     == ev_out[1].calls
NetStatus   == ev_http_out[1].value[1]
NetLatency  == ev_http_out[1].value[2]
NetError    == ev_http_out[1].value[3]
ProcStatus  == ev_docker_out[1].value[1]
ProcError   == ev_docker_out[1].value[2]

\* C1: in mode both with endpoint and container, a network probe that is not
\* up is the verdict verbatim (status, latency, error) and the process probe
\* is not invoked.
C1_BothShortCircuit ==
    (EvalRan /\ HttpRan /\ ev_service.check_type = "both" /\ HasBoth
        /\ ~ev_http_out[1].raised /\ NetStatus /= "up")
    => /\ ~ev_out[1].raised
       /\ EvResult = [status |-> NetStatus, response_time_ms |-> NetLatency,
                      error_message |-> NetError]
       /\ EvCalls = <<"http">>

C1_Witness ==
    /\ EvalRan /\ HttpRan /\ ev_service.check_type = "both" /\ HasBoth
    /\ ev_http = ConnRefused
    /\ EvResult.status = "down" /\ EvResult.error_message = Some("Connection refused")
    /\ EvCalls = <<"http">>

\* C2: in mode both with endpoint and container, network up and process not
\* up (down, or unknown without the backend) gives degraded with the process
\* probe's error and the network probe's latency.
C2_BothDegraded ==
    (EvalRan /\ HttpRan /\ DockerRan /\ ev_service.check_type = "both" /\ HasBoth
        /\ ~ev_http_out[1].raised /\ ~ev_docker_out[1].raised
        /\ NetStatus = "up" /\ ProcStatus /= "up")
    => /\ ~ev_out[1].raised
       /\ EvResult = [status |-> "degraded", response_time_ms |-> NetLatency,
                      error_message |-> ProcError]

C2_Witness ==
    /\ EvalRan /\ HttpRan /\ DockerRan /\ ev_service.check_type = "both" /\ HasBoth
    /\ NetStatus = "up" /\ ~DOCKER_AVAILABLE /\ ProcStatus = "unknown"
    /\ EvResult.status = "degraded"
    /\ EvResult.error_message = Some("Docker library not available")
    /\ EvResult.response_time_ms = Some(42)

\* C3: in mode both with endpoint and container, network up and process up
\* gives up with the network latency and no error, and up is returned only
\* when both probes were invoked and both yielded up.
C3_BothUp ==
    (EvalRan /\ HttpRan /\ DockerRan /\ ev_service.check_type = "both" /\ HasBoth
        /\ ~ev_http_out[1].raised /\ ~ev_docker_out[1].raised /\ ~ev_out[1].raised)
    => /\ (NetStatus = "up" /\ ProcStatus = "up")
            => EvResult = [status |-> "up", response_time_ms |-> NetLatency,
                           error_message |-> None]
       /\ EvResult.status = "up"
            => (NetStatus = "up" /\ ProcStatus = "up" /\ EvCalls = <<"http", "docker">>)

C3_Witness ==
    /\ EvalRan /\ HttpRan /\ DockerRan /\ ev_service.check_type = "both" /\ HasBoth
    /\ ev_http = Response(302, 42000) /\ DOCKER_AVAILABLE /\ ev_docker = Container("running")
    /\ EvResult = [status |-> "up", response_time_ms |-> Some(42), error_message |-> None]

\* a probe the evaluator invoked met a failure
HttpFailed   == "http" \in Range(EvCalls) /\ ev_http.kind = "exception"
DockerFailed == "docker" \in Range(EvCalls)
                /\ (~DOCKER_AVAILABLE \/ ev_docker.kind = "exception")

\* C7: for every service dict and every probe outcome neither probe nor the
\* evaluator raises, the verdict's status is one of the four statuses, and a
\* failure of an invoked probe shows as a status other than up plus an error.
C7_NeverRaises ==
    /\ HttpRan   => ~ev_http_out[1].raised
    /\ DockerRan => ~ev_docker_out[1].raised
    /\ EvalRan   => /\ ~ev_out[1].raised
                    /\ EvResult.status \in Statuses
                    /\ (HttpFailed \/ DockerFailed)
                         => (EvResult.status /= "up" /\ EvResult.error_message /= None)

C7_Witness ==
    /\ EvalRan /\ ev_service.check_type = "both" /\ HasBoth
    /\ ev_http = MissingSchema
    /\ EvResult = [status |-> "down", response_time_ms |-> None,
                   error_message |-> Some("Invalid URL: No scheme supplied")]

\* C9: mode http with an endpoint returns the network probe's triple and never
\* invokes the process probe, container configured or not; mode docker with a
\* container returns the process probe's status and error with no latency and
\* never invokes the network probe, endpoint configured or not.
C9_SingleProbeModes ==
    /\ (EvalRan /\ HttpRan /\ ev_service.check_type = "http" /\ Truthy(ev_service.url)
            /\ ~ev_http_out[1].raised)
        => /\ ~ev_out[1].raised
           /\ EvResult = [status |-> NetStatus, response_time_ms |-> NetLatency,
                          error_message |-> NetError]
           /\ EvCalls = <<"http">>
    /\ (EvalRan /\ DockerRan /\ ev_service.check_type = "docker"
            /\ Truthy(ev_service.docker_container) /\ ~ev_docker_out[1].raised)
        => /\ ~ev_out[1].raised
           /\ EvResult = [status |-> ProcStatus, response_time_ms |-> None,
                          error_message |-> ProcError]
           /\ EvCalls = <<"docker">>

C9_Witness ==
    /\ EvalRan /\ DockerRan /\ ev_service.check_type = "docker" /\ HasBoth
    /\ DOCKER_AVAILABLE /\ ev_docker = Container("exited")
    /\ EvResult = [status |-> "down", response_time_ms |-> None,
                   error_message |-> Some("Container status: exited")]
    /\ EvCalls = <<"docker">>

\* the text "HTTP {code}" of each response code the harness draws
HttpCodeText(code) ==
    CASE code = 200 -> "HTTP 200" [] code = 204 -> "HTTP 204" [] code = 301 -> "HTTP 301"
      [] code = 302 -> "HTTP 302" [] code = 404 -> "HTTP 404" [] code = 500 -> "HTTP 500"

\* C10: check_http_health maps 200/302 to (up, measured ms, no error), any
\* other code to (down, measured ms, "HTTP {code}"), a timeout to
\* (down, 5000, "Timeout"), a connection error to (down, none,
\* "Connection refused"), any other failure to (down, none, its text); it
\* never yields degraded or unknown.
C10_HttpMapping ==
    HttpRan =>
        LET out == ev_http_out[1].value
            measured(ms) == ms * 1000 <= ev_http.elapsed_us /\ ev_http.elapsed_us < (ms + 1) * 1000
        IN  /\ ~ev_http_out[1].raised
            /\ out[1] \in {"up", "down"}
            /\ (ev_http.kind = "response" /\ ev_http.code \in {200, 302})
                 => (out[1] = "up" /\ out[2] /= None /\ measured(out[2][1]) /\ out[3] = None)
            /\ (ev_http.kind = "response" /\ ev_http.code \notin {200, 302})
                 => (out[1] = "down" /\ out[2] /= None /\ measured(out[2][1])
                     /\ out[3] = Some(HttpCodeText(ev_http.code)))
            /\ (ev_http.kind = "exception" /\ "Timeout" \in ev_http.classes)
                 => out = <<"down", Some(5000), Some("Timeout")>>
            /\ (ev_http.kind = "exception" /\ "Timeout" \notin ev_http.classes
                    /\ "ConnectionError" \in ev_http.classes)
                 => out = <<"down", None, Some("Connection refused")>>
            /\ (ev_http.kind = "exception" /\ "Timeout" \notin ev_http.classes
                    /\ "ConnectionError" \notin ev_http.classes)
                 => out = <<"down", None, Some(ev_http.msg)>>

C10_Witness ==
    /\ HttpRan /\ ev_http = ConnectTimeout
    /\ ev_http_out[1].value = <<"down", Some(5000), Some("Timeout")>>

\* C11: without the docker library check_docker_health returns unknown and
\* an error whatever the backend would have answered, and does not raise;
\* with it, it returns up and no error exactly when the container exists and
\* is running, and down with an error in every other case.
C11_DockerMapping ==
    DockerRan =>
        LET out == ev_docker_out[1].value IN
        /\ ~ev_docker_out[1].raised
        /\ ~DOCKER_AVAILABLE => out = <<"unknown", Some("Docker library not available")>>
        /\ (DOCKER_AVAILABLE /\ ev_docker = Container("running")) => out = <<"up", None>>
        /\ (DOCKER_AVAILABLE /\ ev_docker /= Container("running"))
             => (out[1] = "down" /\ out[2] /= None)
        /\ (ev_docker = DockerNotFound /\ DOCKER_AVAILABLE)
             => out = <<"down", Some("Container not found")>>

C11_Witness ==
    /\ DockerRan /\ ~DOCKER_AVAILABLE /\ ev_docker = DockerDown
    /\ ev_docker_out[1].value = <<"unknown", Some("Docker library not available")>>

\* C16: in mode both with exactly one of endpoint and container present, only
\* the probe whose field is present runs and its outcome is the verdict.
C16_BothMissingField ==
    (EvalRan /\ ev_service.check_type = "both") =>
        /\ (HttpRan /\ Truthy(ev_service.url) /\ ~Truthy(ev_service.docker_container))
             => /\ EvCalls = <<"http">>
                /\ EvResult = [status |-> NetStatus, response_time_ms |-> NetLatency,
                               error_message |-> NetError]
        /\ (DockerRan /\ ~Truthy(ev_service.url) /\ Truthy(ev_service.docker_container))
             => /\ EvCalls = <<"docker">>
                /\ EvResult.status = ProcStatus

\* C17: when no probe applies (mode http without endpoint, mode docker
\* without container, mode both with neither) no probe is invoked and the
\* verdict is unknown with no latency and no error.
C17_NoProbeApplies ==
    (EvalRan /\ \/ ev_service.check_type = "http" /\ ~Truthy(ev_service.url)
                \/ ev_service.check_type = "docker" /\ ~Truthy(ev_service.docker_container)
                \/ /\ ev_service.check_type = "both"
                   /\ ~Truthy(ev_service.url) /\ ~Truthy(ev_service.docker_container))
    => /\ ~ev_out[1].raised
       /\ EvCalls = <<>>
       /\ EvResult = [status |-> "unknown", response_time_ms |-> None,
                      error_message |-> None]

C17_Witness ==
    /\ EvalRan /\ ev_service.check_type = "http" /\ ev_service.url = Some("")
    /\ Truthy(ev_service.docker_container)
    /\ EvCalls = <<>> /\ EvResult.status = "unknown"

(***************************************************************************)
(* The 72 micro-seasons (626-794).  Of a table entry the model keeps       *)
(* month, day_start, day_end and number; the names and terms it carries    *)
(* take no part in the lookup or in the reported dates.                    *)
(***************************************************************************)
S(m, d_start, d_end, number) ==
    [month |-> m, day_start |-> d_start, day_end |-> d_end, number |-> number]

MICRO_SEASONS == <<
    S(2, 4, 8, 1), S(2, 9, 13, 2), S(2, 14, 18, 3), S(2, 19, 23, 4),
    S(2, 24, 28, 5), S(3, 1, 5, 6), S(3, 6, 10, 7), S(3, 11, 15, 8),
    S(3, 16, 20, 9), S(3, 21, 25, 10), S(3, 26, 30, 11), S(3, 31, 35, 12),
    S(4, 5, 9, 13), S(4, 10, 14, 14), S(4, 15, 19, 15), S(4, 20, 24, 16),
    S(4, 25, 29, 17), S(4, 30, 35, 18), S(5, 5, 9, 19), S(5, 10, 14, 20),
    S(5, 15, 20, 21), S(5, 21, 25, 22), S(5, 26, 30, 23), S(5, 31, 36, 24),
    S(6, 6, 10, 25), S(6, 11, 15, 26), S(6, 16, 20, 27), S(6, 21, 26, 28),
    S(6, 27, 32, 29), S(7, 2, 6, 30), S(7, 7, 11, 31), S(7, 12, 16, 32),
    S(7, 17, 22, 33), S(7, 23, 28, 34), S(7, 29, 33, 35), S(8, 3, 6, 36),
    S(8, 7, 11, 37), S(8, 12, 16, 38), S(8, 17, 22, 39), S(8, 23, 27, 40),
    S(8, 28, 32, 41), S(9, 2, 7, 42), S(9, 8, 12, 43), S(9, 13, 17, 44),
    S(9, 18, 22, 45), S(9, 23, 27, 46), S(9, 28, 32, 47), S(10, 3, 7, 48),
    S(10, 8, 12, 49), S(10, 13, 17, 50), S(10, 18, 22, 51), S(10, 23, 27, 52),
    S(10, 28, 32, 53), S(11, 2, 6, 54), S(11, 7, 11, 55), S(11, 12, 16, 56),
    S(11, 17, 21, 57), S(11, 22, 26, 58), S(11, 27, 32, 59), S(12, 2, 6, 60),
    S(12, 7, 11, 61), S(12, 12, 16, 62), S(12, 17, 21, 63), S(12, 22, 26, 64),
    S(12, 27, 31, 65), S(12, 32, 35, 66), S(1, 5, 9, 67), S(1, 10, 14, 68),
    S(1, 15, 19, 69), S(1, 20, 24, 70), S(1, 25, 29, 71), S(1, 30, 34, 72)
>>

\* _days_in_month (722-723) and _days_in (760): February has 28 days
days_in_month == <<31, 28, 31, 30, 31, 30, 31, 31, 30, 31, 30, 31>>

month_abbr == <<"Jan", "Feb", "Mar", "Apr", "May", "Jun",
                "Jul", "Aug", "Sep", "Oct", "Nov", "Dec">>

\* the key a day d of an entry of month m is stored under (724-733): a
\* sentinel day beyond the month's end is a day of the next month
TableKey(m, d) ==
    IF d <= days_in_month[m] THEN <<m, d>>
    ELSE <<(m % 12) + 1, d - days_in_month[m]>>

\* the keys the inner loop (720-733) assigns for entry i
EntryKeys(i) ==
    {TableKey(MICRO_SEASONS[i].month, d) :
        d \in MICRO_SEASONS[i].day_start .. MICRO_SEASONS[i].day_end}

\* the dict the module-level loop (719-733) leaves: each key assigned maps
\* to the position of the last entry that assigned it (positions count from
\* 1 here, from 0 in the source)
SEASON_BY_MONTH_DAY ==
    [k \in UNION {EntryKeys(i) : i \in DOMAIN MICRO_SEASONS} |->
        CHOOSE i \in DOMAIN MICRO_SEASONS :
            /\ k \in EntryKeys(i)
            /\ \A j \in DOMAIN MICRO_SEASONS : k \in EntryKeys(j) => j <= i]

\* f"{_month_abbr[m]} {d}"
DateStr(m, d) == month_abbr[m] \o " " \o ToString(d)

\* lines 748-782: the dict built from entry idx
SeasonDict(idx) ==
    LET s == MICRO_SEASONS[idx]
        m == s.month
        real_start_d == IF s.day_start <= days_in_month[m] THEN s.day_start
                        ELSE s.day_start - days_in_month[m]
        real_start_m == IF s.day_start <= days_in_month[m] THEN m ELSE (m % 12) + 1
        real_end_d   == IF s.day_end <= days_in_month[m] THEN s.day_end
                        ELSE s.day_end - days_in_month[m]
        real_end_m   == IF s.day_end <= days_in_month[m] THEN m ELSE (m % 12) + 1
    IN  [number |-> s.number, total |-> Len(MICRO_SEASONS),
         start |-> DateStr(real_start_m, real_start_d),
         end |-> DateStr(real_end_m, real_end_d)]

ErrorDict(month, day) ==
    [error |-> "No micro-season found for " \o ToString(month) \o "/" \o ToString(day)]

get_current_micro_season(month, day) ==
    IF <<month, day>> \notin DOMAIN SEASON_BY_MONTH_DAY
    THEN ErrorDict(month, day)
    ELSE SeasonDict(SEASON_BY_MONTH_DAY[<<month, day>>])

\* the dates datetime.now() can give: the days of a 365-day year and the
\* 29th of February
CommonYear == {<<m, d>> : m \in 1..12, d \in 1..31} \cap
              UNION {{<<m, d>> : d \in 1..days_in_month[m]} : m \in 1..12}
Dates      == CommonYear \cup {<<2, 29>>}

InitSeason ==
    /\ today \in Dates /\ season_out = None
    /\ DOCKER_AVAILABLE = FALSE
    /\ services = <<>> /\ next_service_id = 1
    /\ health_checks = <<>> /\ next_check_id = 1
    /\ now = 0 /\ initialized = FALSE /\ events = 0
    /\ pc = "idle" /\ req_services = <<>> /\ sparklines = <<>>
    /\ results = <<>> /\ probe_log = <<>> /\ read_at = 0 /\ read_checks = <<>>
    /\ ev_service = None /\ ev_http = None /\ ev_docker = None
    /\ ev_out = None /\ ev_http_out = None /\ ev_docker_out = None

\* api_season (785-794)
api_season ==
    /\ season_out = None
    /\ season_out' = Some(get_current_micro_season(today[1], today[2]))
    /\ UNCHANGED <<DOCKER_AVAILABLE, db_vars, now, initialized, events, req_vars,
                   ev_vars, today>>

NextSeason == api_season

SpecSeason == InitSeason /\ [][NextSeason]_vars

(***************************************************************************)
(* Properties of the micro-season lookup (under SpecSeason).               *)
(***************************************************************************)
\* the date a reported "Mon d" string names
ParseDate(str) == CHOOSE x \in CommonYear : DateStr(x[1], x[2]) = str

DayOfYear(x) ==
    LET RECURSIVE Before(_)
        Before(m) == IF m = 1 THEN 0 ELSE Before(m - 1) + days_in_month[m - 1]
    IN  Before(x[1]) + x[2]

\* date x lies between dates a and b inclusive, b possibly in the next year
Between(x, a, b) ==
    IF DayOfYear(a) <= DayOfYear(b)
    THEN DayOfYear(a) <= DayOfYear(x) /\ DayOfYear(x) <= DayOfYear(b)
    ELSE DayOfYear(a) <= DayOfYear(x) \/ DayOfYear(x) <= DayOfYear(b)

\* date x lies in the range the dict of entry idx reports
InReportedRange(x, idx) ==
    Between(x, ParseDate(SeasonDict(idx).start), ParseDate(SeasonDict(idx).end))

\* C19: for every day of a 365-day year the lookup returns a season, never
\* the error dict, and for each of the 72 seasons the lookup returns it for
\* that day exactly when the day lies between the season's reported start
\* and end (so no day lies in the reported ranges of two seasons).
C19_LookupAgreesWithRange ==
    (season_out /= None /\ today \in CommonYear) =>
        LET out == season_out[1] IN
        /\ "number" \in DOMAIN out
        /\ \A idx \in DOMAIN MICRO_SEASONS :
              (out.number = MICRO_SEASONS[idx].number) <=> InReportedRange(today, idx)

====
